---- MODULE Spec2Model ----
(***************************************************************************)
(* Model of the credential vault of Modern Browser                         *)
(* (src/browser/features/password_manager.py, class PasswordManager) and   *)
(* of the domain helper it calls (src/browser/utils/helpers.py).           *)
(*                                                                         *)
(* Strings produced by the cryptographic primitives are modelled           *)
(* symbolically, as records that remember what they were made from:        *)
(*   a salt            [tag |-> "b64",    v]          (base64 of n bytes)   *)
(*   a verifier        [tag |-> "sha256", pw, salt]   (hex digest)          *)
(*   a key             [tag |-> "key",    pw, salt]   (PBKDF2 output)       *)
(*   a Fernet token    [tag |-> "tok",    k, p]       (ciphertext of p)     *)
(*   a user's string   [tag |-> "plain",  s]                                *)
(* Two such strings are equal exactly when they were made the same way     *)
(* (the primitives are treated as collision free).  A token stands for     *)
(* every token Fernet may produce for the same key and data: its IV and    *)
(* timestamp are left out.  Of an entry the model keeps the domain, the    *)
(* username, the password and use_count; url, created_at and last_used     *)
(* take no part in the operations modelled here.                           *)
(***************************************************************************)
EXTENDS Integers, Sequences, FiniteSets, TLC

VARIABLES
    settings,               \* QSettings: the persisted key-value store
    passwords,              \* self.passwords: domain -> list of PasswordEntry
    _fernet,                \* self._fernet: None or the Fernet object
    _master_password_hash,  \* self._master_password_hash
    _salt,                  \* self._salt (raw bytes)
    last,                   \* the call that just returned: name, arguments, result
    setPw,                  \* history: argument of the last set_master_password
    saved,                  \* history: (domain, username) -> secret the user stored
    threads                 \* the calls in progress on the two threads

vars ==
    <<settings, passwords, _fernet, _master_password_hash, _salt, last, setPw, saved,
      threads>>

(***************************************************************************)
(* Bounds and input sets                                                   *)
(***************************************************************************)
\* deepest nesting of tokens (a token whose plaintext is again a token)
MaxDepth == 2
\* number of distinct values os.urandom(16) is drawn from
NumSalts == 1
\* largest use_count record_usage is followed to
MaxUseCount == 1
\* longest password generate_password is asked for
MaxLength == 5

MasterPasswords == {"A", "B"}
Secrets == {"s1", "s2"}
\* the empty username is what a form without a username field gives
Usernames == {"", "u"}
\* the username argument left out (username=None)
NoUsername == "<None>"
\* a URL is what urlparse sees of it: whether it has a scheme, and its host
Urls ==
    { [scheme |-> TRUE, host |-> "x.com"],
      [scheme |-> TRUE, host |-> "www.x.com"] }

None == [tag |-> "None"]
Plain(s) == [tag |-> "plain", s |-> s]

KEY_SALT == "passwords/salt"
KEY_HASH == "passwords/master_hash"
KEY_ENTRIES == "passwords/entries"
SettingsKeys == {KEY_SALT, KEY_HASH, KEY_ENTRIES}

(***************************************************************************)
(* Collaborators: QSettings, base64, json, urlparse                        *)
(***************************************************************************)
\* QSettings.value(key, default): the stored value, or the default
value(s, key, default) ==
    IF s[key] = None THEN default ELSE s[key]

\* QSettings.setValue(key, v)
setValue(s, key, v) ==
    [s EXCEPT ![key] = v]

b64encode(bytes) == [tag |-> "b64", v |-> bytes]
b64decode(str) == str.v

json_dumps(data) == [tag |-> "json", data |-> data]
json_loads(str) == str.data

EmptyDict == [d \in {} |-> << >>]

\* helpers.extract_domain: urlparse(url).netloc without a leading "www."
extract_domain(url) ==
    IF ~url.scheme THEN ""
    ELSE IF url.host = "www.x.com" THEN "x.com"
    ELSE url.host

(***************************************************************************)
(* Key derivation and the cipher                                           *)
(***************************************************************************)
_derive_key(salt, password) ==
    [tag |-> "key", pw |-> password, salt |-> salt]

\* the derived key itself kept as the verifier
_hash_password_is_key(salt, password) ==
    _derive_key(salt, password)

\* the digest taken of the salt alone
_hash_password_salt_only(salt, password) ==
    [tag |-> "sha256", pw |-> "", salt |-> b64encode(salt)]

_hash_password(salt, password) ==
    [tag |-> "sha256", pw |-> password, salt |-> b64encode(salt)]

Fernet(key) == [tag |-> "fernet", key |-> key]

\* Fernet.decrypt succeeds on a token made with the same key, raises otherwise
FernetDecrypts(f, data) ==
    /\ data.tag = "tok"
    /\ data.k = f.key

\* a _encrypt that hands the data back whether or not a key is held
_encrypt_never(f, data) ==
    data

_encrypt(f, data) ==
    IF f # None THEN [tag |-> "tok", k |-> f.key, p |-> data]
    ELSE data

_decrypt(f, data) ==
    IF f # None
    THEN IF FernetDecrypts(f, data) THEN data.p ELSE data
    ELSE data

RECURSIVE Depth(_)
Depth(data) ==
    IF data.tag = "tok" THEN 1 + Depth(data.p) ELSE 0

(***************************************************************************)
(* PasswordEntry and the store                                             *)
(***************************************************************************)
PasswordEntry(domain, username, password) ==
    [domain |-> domain, username |-> username, password |-> password,
     use_count |-> 0]

to_dict(entry) ==
    [domain |-> entry.domain, username |-> entry.username,
     password |-> entry.password, use_count |-> entry.use_count]

from_dict(data) ==
    [PasswordEntry(data.domain, data.username, data.password)
        EXCEPT !.use_count = data.use_count]

\* values of passwords/entries that json.dumps of the store never gives:
\*   "notstr"          not a string
\*   "badjson"         a string that is not JSON
\*   "jsonlist"        JSON of a list, as in []
\*   "jsonmap_scalar"  JSON of a map to a number, as in {"x.com": 1}
\*   "jsonmap_strlist" JSON of a map to a list of strings, as in {"x.com": ["s"]}
ForeignBlobs ==
    { [tag |-> t] : t \in {"notstr", "badjson", "jsonlist", "jsonmap_scalar",
                          "jsonmap_strlist"} }

\* how _load ends on the blob: "ok", "caught" (json.JSONDecodeError or
\* TypeError, which its except clause names) or "AttributeError" (.items()
\* of a list, .get() of a string: not named by the except clause)
LoadOutcome(s) ==
    LET passwords_json == value(s, KEY_ENTRIES, json_dumps(EmptyDict))
    IN  CASE passwords_json.tag = "json" -> "ok"
          [] passwords_json.tag \in {"notstr", "badjson", "jsonmap_scalar"} -> "caught"
          [] passwords_json.tag \in {"jsonlist", "jsonmap_strlist"} -> "AttributeError"

\* _load: the entries of the persisted blob, each secret through _decrypt;
\* when it does not reach the end, self.passwords as the statements that
\* ran left it
_load(s, f) ==
    LET passwords_json == value(s, KEY_ENTRIES, json_dumps(EmptyDict))
    IN  IF LoadOutcome(s) = "ok"
        THEN LET passwords_data == json_loads(passwords_json)
             IN  [domain \in DOMAIN passwords_data |->
                    [i \in 1..Len(passwords_data[domain]) |->
                        LET entry == from_dict(passwords_data[domain][i])
                        IN  [entry EXCEPT !.password = _decrypt(f, entry.password)]]]
        ELSE IF passwords_json.tag = "jsonmap_strlist"
             THEN "x.com" :> << >>
             ELSE EmptyDict

\* what a call that runs _load last returns: done, or the exception raised
LoadReturn(s, done) ==
    IF LoadOutcome(s) = "AttributeError" THEN "AttributeError" ELSE done

\* _save: the store after writing every entry, each secret through _encrypt
_save(s, pws, f) ==
    LET passwords_data ==
            [domain \in DOMAIN pws |->
                [i \in 1..Len(pws[domain]) |->
                    [to_dict(pws[domain][i]) EXCEPT
                        !.password = _encrypt(f, pws[domain][i].password)]]]
    IN  setValue(s, KEY_ENTRIES, json_dumps(passwords_data))

is_locked == _master_password_hash # None /\ _fernet = None
has_master_password == _master_password_hash # None

verify_master_password(password) ==
    IF _master_password_hash = None THEN TRUE
    ELSE _hash_password(_salt, password) = _master_password_hash

AllEntries(pws) ==
    UNION { { pws[d][i] : i \in 1..Len(pws[d]) } : d \in DOMAIN pws }

get_count(pws) ==
    LET RECURSIVE Sum(_)
        Sum(ds) == IF ds = {} THEN 0
                   ELSE LET d == CHOOSE x \in ds : TRUE
                        IN  Len(pws[d]) + Sum(ds \ {d})
    IN  Sum(DOMAIN pws)

\* a write with a key held stays within the modelled token depth
CanEncrypt(pws, f) ==
    f # None => \A e \in AllEntries(pws) : Depth(e.password) < MaxDepth

\* a finished call, with the lock state it started in and the value returned
CallV(op, pw, ret, val) ==
    [op |-> op, pw |-> pw, ret |-> ret, val |-> val,
     url |-> None, domain |-> "", username |-> NoUsername,
     events |-> << >>, args |-> None,
     had |-> has_master_password, locked |-> is_locked]

Call(op, pw, ret) == CallV(op, pw, ret, None)

\* a finished call that was given a URL and a username
CallU(op, url, username, ret, val) ==
    [CallV(op, "", ret, val) EXCEPT !.url = url, !.username = username]

\* a finished call that was given a domain and a username
CallD(op, domain, username, ret) ==
    [CallV(op, "", ret, None) EXCEPT !.domain = domain, !.username = username]

\* the call with what it did that others can observe, in program order:
\* "_save" for the write of the entries blob, and the signals it emitted
Did(call, events) ==
    [call EXCEPT !.events = events]

\* the call with arguments that the other fields do not hold
WithArgs(call, args) ==
    [call EXCEPT !.args = args]

NoPw == "-"

\* the history of what the user stored under (domain, username)
Remember(sv, domain, username, password) ==
    [k \in DOMAIN sv \cup {<<domain, username>>} |->
        IF k = <<domain, username>> THEN password ELSE sv[k]]

Forget(sv, domain, username) ==
    [k \in DOMAIN sv \ {<<domain, username>>} |-> sv[k]]

(***************************************************************************)
(* Calls in progress                                                       *)
(***************************************************************************)
\* a thread that is in no call: pc is where the thread stands, the other
\* fields are the arguments and locals of its call; unlocked and overlap
\* are history (the vault was Unlocked when the call began; the call of
\* the other thread was in progress at some time during this call)
Idle ==
    [pc |-> "idle", password |-> "", url |-> None, username |-> "",
     secret |-> None, unlocked |-> FALSE, overlap |-> FALSE,
     size |-> 0, visited |-> {}, d |-> "", i |-> 0, data |-> EmptyDict]

\* thread "M" calls set_master_password, thread "S" calls save_password
ThreadNames == {"M", "S"}

InFlight(t) == t.pc \notin {"idle", "done", "raised"}

(***************************************************************************)
(* Construction                                                            *)
(***************************************************************************)
\* _init_encryption then _load, on a store s, with a fresh salt at hand
Construct(s, urandom) ==
    LET stored_salt == s[KEY_SALT]
        salt == IF stored_salt # None THEN b64decode(stored_salt) ELSE urandom
        s1 == IF stored_salt # None THEN s
              ELSE setValue(s, KEY_SALT, b64encode(urandom))
    IN  /\ settings' = s1
        /\ _salt' = salt
        /\ _master_password_hash' = s1[KEY_HASH]
        /\ _fernet' = None
        /\ passwords' = _load(s1, None)

Init ==
    \E urandom \in 1..NumSalts :
        /\ settings = [k \in SettingsKeys |->
                          IF k = KEY_SALT THEN b64encode(urandom) ELSE None]
        /\ _salt = urandom
        /\ _master_password_hash = None
        /\ _fernet = None
        /\ passwords = EmptyDict
        /\ last = Call("__init__", "", "None")
        /\ setPw = NoPw
        /\ saved = EmptyDict
        /\ threads = [t \in ThreadNames |-> Idle]

\* the process ends and the browser is started again
Restart ==
    /\ \E urandom \in 1..NumSalts : Construct(settings, urandom)
    /\ last' = Call("__init__", "", LoadReturn(settings, "None"))
    /\ UNCHANGED <<setPw, saved, threads>>

(***************************************************************************)
(* Master password                                                         *)
(***************************************************************************)
set_master_password(password) ==
    LET hash == _hash_password(_salt, password)
        f == Fernet(_derive_key(_salt, password))
    IN  /\ CanEncrypt(passwords, f)
        /\ _master_password_hash' = hash
        /\ _fernet' = f
        /\ settings' = _save(setValue(settings, KEY_HASH, hash), passwords, f)
        /\ last' = Did(Call("set_master_password", password, "None"), <<"_save">>)
        /\ setPw' = password
        /\ UNCHANGED <<passwords, _salt, saved, threads>>

VerifyMasterPassword(password) ==
    /\ last' = Call("verify_master_password", password,
                    IF verify_master_password(password) THEN "True" ELSE "False")
    /\ UNCHANGED <<settings, passwords, _fernet, _master_password_hash, _salt, setPw, saved, threads>>

\* an unlock that derives and holds the key without verifying the password
unlock_unverified(password) ==
    LET f == Fernet(_derive_key(_salt, password))
    IN  /\ _fernet' = f
        /\ passwords' = _load(settings, f)
        /\ last' = Call("unlock", password, "True")
        /\ UNCHANGED <<settings, _master_password_hash, _salt, setPw, saved, threads>>

unlock(password) ==
    IF ~verify_master_password(password)
    THEN /\ last' = Call("unlock", password, "False")
         /\ UNCHANGED <<settings, passwords, _fernet, _master_password_hash,
                        _salt, setPw, saved, threads>>
    ELSE LET f == Fernet(_derive_key(_salt, password))
         IN  /\ _fernet' = f
             /\ passwords' = _load(settings, f)
             /\ last' = Call("unlock", password, LoadReturn(settings, "True"))
             /\ UNCHANGED <<settings, _master_password_hash, _salt, setPw, saved, threads>>

(***************************************************************************)
(* Entries                                                                 *)
(***************************************************************************)
HasEntry(pws, domain, username) ==
    /\ domain \in DOMAIN pws
    /\ \E i \in 1..Len(pws[domain]) : pws[domain][i].username = username

\* index of the first entry of the domain with that username
FirstIndex(pws, domain, username) ==
    CHOOSE i \in 1..Len(pws[domain]) :
        /\ pws[domain][i].username = username
        /\ \A j \in 1..(i - 1) : pws[domain][j].username # username

\* pws with the domain's list set to entries (a new key when the domain is new)
WithDomain(pws, domain, entries) ==
    [d \in DOMAIN pws \cup {domain} |-> IF d = domain THEN entries ELSE pws[d]]

save_password(url, username, password) ==
    LET domain == extract_domain(url)
        pws == IF HasEntry(passwords, domain, username)
               THEN [passwords EXCEPT
                        ![domain][FirstIndex(passwords, domain, username)].password
                            = password]
               ELSE WithDomain(passwords, domain,
                        Append(IF domain \in DOMAIN passwords
                               THEN passwords[domain] ELSE << >>,
                               PasswordEntry(domain, username, password)))
    IN  /\ CanEncrypt(pws, _fernet)
        /\ passwords' = pws
        /\ settings' = _save(settings, pws, _fernet)
        /\ last' = Did(CallU("save_password", url, username, "entry",
                             pws[domain][FirstIndex(pws, domain, username)]),
                       <<"_save", "password_saved", "passwords_changed">>)
        /\ saved' = Remember(saved, domain, username, password)
        /\ UNCHANGED <<_fernet, _master_password_hash, _salt, setPw, threads>>

\* an update_password that changes the entry in memory and does not save
update_password_unsaved(domain, username, new_password) ==
    IF HasEntry(passwords, domain, username)
    THEN LET pws == [passwords EXCEPT
                        ![domain][FirstIndex(passwords, domain, username)].password
                            = new_password]
         IN  /\ CanEncrypt(pws, _fernet)
             /\ passwords' = pws
             /\ settings' = settings
             /\ last' = WithArgs(Did(CallD("update_password", domain, username,
                                           "True"),
                                     <<"_save", "passwords_changed">>),
                                 [new_password |-> new_password])
             /\ saved' = Remember(saved, domain, username, new_password)
             /\ UNCHANGED <<_fernet, _master_password_hash, _salt, setPw, threads>>
    ELSE /\ last' = WithArgs(CallD("update_password", domain, username, "False"),
                             [new_password |-> new_password])
         /\ UNCHANGED <<settings, passwords, _fernet, _master_password_hash,
                        _salt, setPw, saved, threads>>

update_password(domain, username, new_password) ==
    IF HasEntry(passwords, domain, username)
    THEN LET pws == [passwords EXCEPT
                        ![domain][FirstIndex(passwords, domain, username)].password
                            = new_password]
         IN  /\ CanEncrypt(pws, _fernet)
             /\ passwords' = pws
             /\ settings' = _save(settings, pws, _fernet)
             /\ last' = WithArgs(Did(CallD("update_password", domain, username,
                                           "True"),
                                     <<"_save", "passwords_changed">>),
                                 [new_password |-> new_password])
             /\ saved' = Remember(saved, domain, username, new_password)
             /\ UNCHANGED <<_fernet, _master_password_hash, _salt, setPw, threads>>
    ELSE /\ last' = WithArgs(CallD("update_password", domain, username, "False"),
                             [new_password |-> new_password])
         /\ UNCHANGED <<settings, passwords, _fernet, _master_password_hash,
                        _salt, setPw, saved, threads>>

remove_password(domain, username) ==
    IF domain \in DOMAIN passwords
    THEN LET kept == SelectSeq(passwords[domain],
                               LAMBDA e : e.username # username)
             pws == IF kept = << >>
                    THEN [d \in DOMAIN passwords \ {domain} |-> passwords[d]]
                    ELSE [passwords EXCEPT ![domain] = kept]
         IN  /\ CanEncrypt(pws, _fernet)
             /\ passwords' = pws
             /\ settings' = _save(settings, pws, _fernet)
             /\ last' = Did(CallD("remove_password", domain, username, "True"),
                            <<"_save", "password_removed", "passwords_changed">>)
             /\ saved' = Forget(saved, domain, username)
             /\ UNCHANGED <<_fernet, _master_password_hash, _salt, setPw, threads>>
    ELSE /\ last' = CallD("remove_password", domain, username, "False")
         /\ UNCHANGED <<settings, passwords, _fernet, _master_password_hash,
                        _salt, setPw, saved, threads>>

record_usage(domain, username) ==
    IF HasEntry(passwords, domain, username)
    THEN LET i == FirstIndex(passwords, domain, username)
             pws == [passwords EXCEPT ![domain][i].use_count = @ + 1]
         IN  /\ passwords[domain][i].use_count < MaxUseCount
             /\ CanEncrypt(pws, _fernet)
             /\ passwords' = pws
             /\ settings' = _save(settings, pws, _fernet)
             /\ last' = Did(CallD("record_usage", domain, username, "True"),
                            <<"_save">>)
             /\ UNCHANGED <<_fernet, _master_password_hash, _salt, setPw, saved, threads>>
    ELSE /\ last' = CallD("record_usage", domain, username, "False")
         /\ UNCHANGED <<settings, passwords, _fernet, _master_password_hash,
                        _salt, setPw, saved, threads>>

clear_all ==
    /\ passwords' = EmptyDict
    /\ settings' = _save(settings, EmptyDict, _fernet)
    /\ last' = Did(Call("clear_all", "", "None"), <<"_save", "passwords_changed">>)
    /\ saved' = EmptyDict
    /\ UNCHANGED <<_fernet, _master_password_hash, _salt, setPw, threads>>

(***************************************************************************)
(* Import from a JSON file                                                 *)
(***************************************************************************)
\* an entry as export_passwords writes it
FileEntry(domain, username, s) ==
    to_dict(PasswordEntry(domain, username, Plain(s)))

\* the files read: what json.load gives, a map from a key to a list of entries
ImportFiles ==
    { "x.com" :> << FileEntry("x.com", "u", "s2") >>,
      "x.com" :> << FileEntry("x.com", "u", "s1"), FileEntry("x.com", "u", "s2") >>,
      "y.com" :> << FileEntry("x.com", "u", "s1") >> }

\* the inner loop of import_passwords: each entry not yet in the list by
\* its username is appended
RECURSIVE AppendNew(_, _)
AppendNew(list, entries) ==
    IF entries = << >> THEN list
    ELSE LET entry == from_dict(Head(entries))
             exists == \E i \in 1..Len(list) : list[i].username = entry.username
         IN  AppendNew(IF exists THEN list ELSE Append(list, entry),
                       Tail(entries))

\* self.passwords after the loops of import_passwords over data
Imported(pws, data) ==
    [domain \in DOMAIN pws \cup DOMAIN data |->
        IF domain \in DOMAIN data
        THEN AppendNew(IF domain \in DOMAIN pws THEN pws[domain] ELSE << >>,
                       data[domain])
        ELSE pws[domain]]

\* the history after an import: what was appended counts as stored
RememberImported(sv, old, new) ==
    LET added == UNION { { <<d, new[d][i].username>> : i \in 1..Len(new[d]) }
                         : d \in DOMAIN new }
        fresh == { k \in added : ~HasEntry(old, k[1], k[2]) }
    IN  [k \in DOMAIN sv \cup fresh |->
            IF k \in fresh
            THEN new[k[1]][FirstIndex(new, k[1], k[2])].password
            ELSE sv[k]]

import_passwords(data) ==
    LET pws == Imported(passwords, data)
    IN  /\ CanEncrypt(pws, _fernet)
        /\ passwords' = pws
        /\ settings' = _save(settings, pws, _fernet)
        /\ last' = Did(Call("import_passwords", "", "None"),
                       <<"_save", "passwords_changed">>)
        /\ saved' = RememberImported(saved, passwords, pws)
        /\ UNCHANGED <<_fernet, _master_password_hash, _salt, setPw, threads>>

(***************************************************************************)
(* Lookups                                                                 *)
(***************************************************************************)
\* Python's truth value of the username argument: None and "" are false
Truthy(username) == username \notin {"", NoUsername}

\* a get_password that gives the last entry when no username is given
get_password_last(pws, url, username) ==
    LET domain == extract_domain(url)
    IN  IF domain \notin DOMAIN pws THEN None
        ELSE LET entries == pws[domain]
             IN  IF Truthy(username)
                 THEN IF HasEntry(pws, domain, username)
                      THEN entries[FirstIndex(pws, domain, username)]
                      ELSE None
                 ELSE IF entries # << >> THEN entries[Len(entries)] ELSE None

\* what get_password returns: an entry as held in memory, or None
get_password(pws, url, username) ==
    LET domain == extract_domain(url)
    IN  IF domain \notin DOMAIN pws THEN None
        ELSE LET entries == pws[domain]
             IN  IF Truthy(username)
                 THEN IF HasEntry(pws, domain, username)
                      THEN entries[FirstIndex(pws, domain, username)]
                      ELSE None
                 ELSE IF entries # << >> THEN entries[1] ELSE None

\* what get_passwords_for_domain returns: the domain's list, or []
get_passwords_for_domain(pws, domain) ==
    IF domain \in DOMAIN pws THEN pws[domain] ELSE << >>

get_passwords_for_url(pws, url) ==
    get_passwords_for_domain(pws, extract_domain(url))

ReadOnly ==
    UNCHANGED <<settings, passwords, _fernet, _master_password_hash, _salt,
                setPw, saved, threads>>

GetPassword(url, username) ==
    LET got == get_password(passwords, url, username)
    IN  /\ last' = CallU("get_password", url, username,
                         IF got = None THEN "None" ELSE "entry", got)
        /\ ReadOnly

GetPasswordsForUrl(url) ==
    /\ last' = CallU("get_passwords_for_url", url, NoUsername, "list",
                     [tag |-> "list", items |-> get_passwords_for_url(passwords, url)])
    /\ ReadOnly

Domains == { extract_domain(u) : u \in Urls }

Next ==
    \/ Restart
    \/ \E p \in MasterPasswords : set_master_password(p)
    \/ \E p \in MasterPasswords : VerifyMasterPassword(p)
    \/ \E p \in MasterPasswords : unlock(p)
    \/ \E url \in Urls, u \in Usernames, s \in Secrets :
           save_password(url, u, Plain(s))
    \/ \E d \in Domains, u \in Usernames, s \in Secrets :
           update_password(d, u, Plain(s))
    \/ \E d \in Domains, u \in Usernames : remove_password(d, u)

Spec == Init /\ [][Next]_vars

\* the operations of Next and the lookups
NextRead ==
    \/ Next
    \/ \E url \in Urls, u \in Usernames \cup {NoUsername} : GetPassword(url, u)
    \/ \E url \in Urls : GetPasswordsForUrl(url)

SpecRead == Init /\ [][NextRead]_vars

\* the operations of Next, import, clear_all and record_usage
NextStore ==
    \/ Next
    \/ \E data \in ImportFiles : import_passwords(data)
    \/ clear_all
    \/ \E d \in Domains, u \in Usernames : record_usage(d, u)

SpecStore == Init /\ [][NextStore]_vars

(***************************************************************************)
(* The settings store written from outside the vault                       *)
(***************************************************************************)
\* QSettings(APP_ORGANIZATION, APP_NAME) is a store every program of the
\* user can write: passwords/entries is set to blob, or removed (None)
ForeignWrite(blob) ==
    /\ settings' = setValue(settings, KEY_ENTRIES, blob)
    /\ last' = Call("setValue", "", "None")
    /\ UNCHANGED <<passwords, _fernet, _master_password_hash, _salt, setPw, saved, threads>>

NextLoad ==
    \/ Next
    \/ \E blob \in ForeignBlobs \cup {None} : ForeignWrite(blob)

SpecLoad == Init /\ [][NextLoad]_vars

(***************************************************************************)
(* The settings manager on the same store                                  *)
(***************************************************************************)
\* SettingsManager.reset_to_defaults: QSettings.clear() removes every key of
\* the store, those of the vault too; _init_defaults writes none of them back
reset_to_defaults ==
    /\ settings' = [k \in SettingsKeys |-> None]
    /\ last' = Call("reset_to_defaults", "", "None")
    /\ UNCHANGED <<passwords, _fernet, _master_password_hash, _salt, setPw, saved, threads>>

\* the files read by import_settings, as far as the vault's keys go: a file
\* with none of them, and a file that export_settings wrote when the vault
\* had saved an empty store
SettingsFiles ==
    { [k \in {} |-> None],
      [k \in {KEY_ENTRIES} |-> json_dumps(EmptyDict)] }

\* SettingsManager.import_settings: setValue for every key of the file
import_settings(all_settings) ==
    /\ settings' = [k \in SettingsKeys |->
                       IF k \in DOMAIN all_settings THEN all_settings[k]
                       ELSE settings[k]]
    /\ last' = Call("import_settings", "", "None")
    /\ UNCHANGED <<passwords, _fernet, _master_password_hash, _salt, setPw, saved,
                   threads>>

NextSettings ==
    \/ Next
    \/ reset_to_defaults
    \/ \E all_settings \in SettingsFiles : import_settings(all_settings)

SpecSettings == Init /\ [][NextSettings]_vars

(***************************************************************************)
(* Export to a JSON file                                                   *)
(***************************************************************************)
\* the master_password argument: a password, or "" for one that Python
\* takes as false (None, the default, and the empty string)
ExportPasswords == MasterPasswords \cup {""}

\* what export_passwords writes: every entry as held in memory, to_dict
ExportData(pws) ==
    [domain \in DOMAIN pws |->
        [i \in 1..Len(pws[domain]) |-> to_dict(pws[domain][i])]]

export_passwords(master_password) ==
    /\ IF master_password # "" /\ ~verify_master_password(master_password)
       THEN last' = Call("export_passwords", master_password, "False")
       ELSE last' = CallV("export_passwords", master_password, "True",
                          [tag |-> "file", data |-> ExportData(passwords)])
    /\ ReadOnly

NextExport ==
    \/ Next
    \/ \E master_password \in ExportPasswords : export_passwords(master_password)

SpecExport == Init /\ [][NextExport]_vars

(***************************************************************************)
(* Several sites, and URLs typed without a scheme                          *)
(***************************************************************************)
\* "https://x.com", "https://y.com", "x.com", "y.com"
SiteUrls ==
    { [scheme |-> sc, host |-> h] : sc \in BOOLEAN, h \in {"x.com", "y.com"} }

NextSites ==
    \/ \E url \in SiteUrls, s \in Secrets : save_password(url, "u", Plain(s))
    \/ \E url \in SiteUrls : GetPassword(url, "u")
    \/ \E d \in {"", "x.com", "y.com"} : remove_password(d, "u")

SpecSites == Init /\ [][NextSites]_vars

(***************************************************************************)
(* search                                                                  *)
(***************************************************************************)
\* the strings asked for
SearchQueries == {"", "U", ".COM", "z"}

\* the characters of the strings that take part in a search
Chars(str) ==
    CASE str = "" -> << >>
      [] str = "u" -> <<"u">>
      [] str = "U" -> <<"U">>
      [] str = "z" -> <<"z">>
      [] str = ".COM" -> <<".", "C", "O", "M">>
      [] str = "x.com" -> <<"x", ".", "c", "o", "m">>
      [] str = "y.com" -> <<"y", ".", "c", "o", "m">>

\* a lower() that leaves the string as it is
lower_unchanged(chars) ==
    chars

\* str.lower(), on the characters used here
lower(chars) ==
    [i \in 1..Len(chars) |->
        CASE chars[i] = "U" -> "u"
          [] chars[i] = "C" -> "c"
          [] chars[i] = "O" -> "o"
          [] chars[i] = "M" -> "m"
          [] OTHER -> chars[i]]

\* Python's "part in whole" on strings
In(part, whole) ==
    \E k \in 0..(Len(whole) - Len(part)) :
        SubSeq(whole, k + 1, k + Len(part)) = part

\* the domains of pws in the order the dict gives them
RECURSIVE Keys(_)
Keys(ds) ==
    IF ds = {} THEN << >>
    ELSE LET d == CHOOSE x \in ds : TRUE
         IN  <<d>> \o Keys(ds \ {d})

\* what search returns: the entries held in memory that match, in order
search(pws, query) ==
    LET q == lower(Chars(query))
        Matches(domain) ==
            SelectSeq(pws[domain],
                      LAMBDA entry : \/ In(q, lower(Chars(domain)))
                                     \/ In(q, lower(Chars(entry.username))))
        RECURSIVE Results(_)
        Results(keys) ==
            IF keys = << >> THEN << >>
            ELSE Matches(Head(keys)) \o Results(Tail(keys))
    IN  Results(Keys(DOMAIN pws))

Search(query) ==
    /\ last' = [CallV("search", "", "list",
                      [tag |-> "list", items |-> search(passwords, query)])
                   EXCEPT !.args = [query |-> query]]
    /\ ReadOnly

NextSearch ==
    \/ Next
    \/ \E query \in SearchQueries : Search(query)

SpecSearch == Init /\ [][NextSearch]_vars

(***************************************************************************)
(* generate_password                                                       *)
(***************************************************************************)
\* string.ascii_letters + string.digits (+ string.punctuation), with one
\* character standing for each class: lowercase, uppercase, digit,
\* punctuation
Alphabet(include_special) ==
    <<"a", "A", "0">> \o (IF include_special THEN <<"!">> ELSE << >>)

\* the password built from the outcomes of secrets.choice: choice[i] is the
\* position in chars that the i-th draw gave
generate_password(length, include_special, choice) ==
    LET chars == Alphabet(include_special)
    IN  [i \in 1..length |-> chars[choice[i]]]

GeneratePassword(length, include_special) ==
    \E choice \in [1..length -> 1..Len(Alphabet(include_special))] :
        /\ last' = [CallV("generate_password", "", "str",
                          [tag |-> "str",
                           chars |-> generate_password(length, include_special,
                                                       choice)])
                       EXCEPT !.args = [length |-> length,
                                        include_special |-> include_special]]
        /\ ReadOnly

NextGenerate ==
    \E length \in 0..MaxLength, include_special \in BOOLEAN :
        GeneratePassword(length, include_special)

SpecGenerate == Init /\ [][NextGenerate]_vars

(***************************************************************************)
(* set_master_password and save_password on two threads                    *)
(***************************************************************************)
\* The vault takes no lock.  A call runs as the steps below, and the steps
\* of the two threads interleave freely.  save_password's search and
\* update of self.passwords is taken as one step.
Other(t) == IF t = "M" THEN "S" ELSE "M"

\* thread t enters its call with the locals call
Begin(t, call) ==
    /\ ~InFlight(threads[t])
    /\ threads' =
          [threads EXCEPT
              ![t] = [call EXCEPT !.overlap = InFlight(threads[Other(t)])],
              ![Other(t)].overlap = @ \/ InFlight(threads[Other(t)])]
    /\ UNCHANGED <<settings, passwords, _fernet, _master_password_hash, _salt,
                   last, setPw, saved>>

BeginSetMasterPassword(password) ==
    Begin("M", [Idle EXCEPT !.pc = "m1", !.password = password,
                            !.unlocked = has_master_password /\ ~is_locked])

BeginSavePassword(url, username, password) ==
    Begin("S", [Idle EXCEPT !.pc = "s1", !.url = url, !.username = username,
                            !.secret = password,
                            !.unlocked = has_master_password /\ ~is_locked])

\* line 114: self._master_password_hash = self._hash_password(password)
SetHash ==
    /\ threads["M"].pc = "m1"
    /\ _master_password_hash' = _hash_password(_salt, threads["M"].password)
    /\ threads' = [threads EXCEPT !["M"].pc = "m2"]
    /\ UNCHANGED <<settings, passwords, _fernet, _salt, last, setPw, saved>>

\* line 115: self.settings.setValue("passwords/master_hash", ...)
WriteHash ==
    /\ threads["M"].pc = "m2"
    /\ settings' = setValue(settings, KEY_HASH, _master_password_hash)
    /\ setPw' = threads["M"].password
    /\ threads' = [threads EXCEPT !["M"].pc = "m3"]
    /\ UNCHANGED <<passwords, _fernet, _master_password_hash, _salt, last, saved>>

\* lines 117-118: self._fernet = Fernet(self._derive_key(password))
SetFernet ==
    /\ threads["M"].pc = "m3"
    /\ _fernet' = Fernet(_derive_key(_salt, threads["M"].password))
    /\ threads' = [threads EXCEPT !["M"].pc = "iter"]
    /\ UNCHANGED <<settings, passwords, _master_password_hash, _salt, last,
                   setPw, saved>>

\* lines 194-211: the entry is updated in place, or appended
StoreEntry ==
    LET call == threads["S"]
        domain == extract_domain(call.url)
        pws == IF HasEntry(passwords, domain, call.username)
               THEN [passwords EXCEPT
                        ![domain][FirstIndex(passwords, domain, call.username)].password
                            = call.secret]
               ELSE WithDomain(passwords, domain,
                        Append(IF domain \in DOMAIN passwords
                               THEN passwords[domain] ELSE << >>,
                               PasswordEntry(domain, call.username, call.secret)))
    IN  /\ call.pc = "s1"
        /\ passwords' = pws
        /\ saved' = Remember(saved, domain, call.username, call.secret)
        /\ threads' = [threads EXCEPT !["S"].pc = "iter"]
        /\ UNCHANGED <<settings, _fernet, _master_password_hash, _salt, last, setPw>>

\* _save, line 182: the iterator over self.passwords.items() is made
SaveIter(t) ==
    /\ threads[t].pc = "iter"
    /\ threads' = [threads EXCEPT ![t].pc = "next",
                                  ![t].size = Cardinality(DOMAIN passwords),
                                  ![t].visited = {},
                                  ![t].data = EmptyDict]
    /\ UNCHANGED <<settings, passwords, _fernet, _master_password_hash, _salt,
                   last, setPw, saved>>

\* the record of thread t's call when it ends with ret
Returning(t, ret) ==
    LET call == threads[t]
        domain == extract_domain(call.url)
    IN  IF t = "M"
        THEN Did(Call("set_master_password", call.password, ret), <<"_save">>)
        ELSE IF ret = "entry"
        THEN Did(CallU("save_password", call.url, call.username, ret,
                       passwords[domain][FirstIndex(passwords, domain,
                                                    call.username)]),
                 <<"_save", "password_saved", "passwords_changed">>)
        ELSE CallU("save_password", call.url, call.username, ret, None)

\* _save, line 182: the iterator gives the next domain; a dict that changed
\* its size since the iterator was made raises RuntimeError
SaveNext(t) ==
    LET call == threads[t]
        left == DOMAIN passwords \ call.visited
    IN  /\ call.pc = "next"
        /\ IF Cardinality(DOMAIN passwords) # call.size
           THEN /\ threads' = [threads EXCEPT ![t].pc = "raised"]
                /\ last' = Returning(t, "RuntimeError")
           ELSE IF left # {}
           THEN LET d == CHOOSE x \in left : TRUE
                IN  /\ threads' = [threads EXCEPT
                                      ![t].pc = "entry", ![t].d = d, ![t].i = 1,
                                      ![t].data = WithDomain(call.data, d, << >>)]
                    /\ UNCHANGED last
           ELSE /\ threads' = [threads EXCEPT ![t].pc = "write"]
                /\ UNCHANGED last
        /\ UNCHANGED <<settings, passwords, _fernet, _master_password_hash, _salt,
                       setPw, saved>>

\* _save, lines 184-188: the next entry of the list, as the list is now,
\* is encrypted with the Fernet object held now
SaveEntry(t) ==
    LET call == threads[t]
        entries == passwords[call.d]
    IN  /\ call.pc = "entry"
        /\ IF call.i <= Len(entries)
           THEN LET entry == entries[call.i]
                    entry_dict == [to_dict(entry) EXCEPT
                                      !.password = _encrypt(_fernet, entry.password)]
                IN  /\ _fernet # None => Depth(entry.password) < MaxDepth
                    /\ threads' = [threads EXCEPT
                                      ![t].i = @ + 1,
                                      ![t].data[call.d] = Append(@, entry_dict)]
           ELSE threads' = [threads EXCEPT ![t].pc = "next",
                                           ![t].visited = @ \cup {call.d}]
        /\ UNCHANGED <<settings, passwords, _fernet, _master_password_hash, _salt,
                       last, setPw, saved>>

\* _save, line 190: setValue("passwords/entries", json.dumps(passwords_data)),
\* and the call returns
SaveWrite(t) ==
    /\ threads[t].pc = "write"
    /\ settings' = setValue(settings, KEY_ENTRIES, json_dumps(threads[t].data))
    /\ threads' = [threads EXCEPT ![t].pc = "done"]
    /\ last' = Returning(t, IF t = "M" THEN "None" ELSE "entry")
    /\ UNCHANGED <<passwords, _fernet, _master_password_hash, _salt, setPw, saved>>

NextThreads ==
    \/ \E p \in MasterPasswords : BeginSetMasterPassword(p)
    \/ \E url \in Urls, u \in Usernames, s \in Secrets :
           BeginSavePassword(url, u, Plain(s))
    \/ SetHash
    \/ WriteHash
    \/ SetFernet
    \/ StoreEntry
    \/ \E t \in ThreadNames : SaveIter(t)
    \/ \E t \in ThreadNames : SaveNext(t)
    \/ \E t \in ThreadNames : SaveEntry(t)
    \/ \E t \in ThreadNames : SaveWrite(t)

SpecThreads == Init /\ [][NextThreads]_vars

(***************************************************************************)
(* The process stopping inside set_master_password                         *)
(***************************************************************************)
\* set_master_password writes the verifier, and the process ends before
\* _save writes the entries; the browser is then started again
set_master_password_interrupted(password) ==
    LET hash == _hash_password(_salt, password)
    IN  /\ \E urandom \in 1..NumSalts :
               Construct(setValue(settings, KEY_HASH, hash), urandom)
        /\ last' = Call("__init__", "", "None")
        /\ setPw' = password
        /\ UNCHANGED <<saved, threads>>

NextCrash ==
    \/ Next
    \/ \E p \in MasterPasswords : set_master_password_interrupted(p)

SpecCrash == Init /\ [][NextCrash]_vars

(***************************************************************************)
(* Definitions shared by the properties                                    *)
(***************************************************************************)
\* the entries of the persisted blob, as stored
PersistedEntries == AllEntries(_load(settings, None))

\* the key that belongs to the master password last set
MasterKey == _derive_key(_salt, setPw)

StepOf(op) == last'.op = op

(***************************************************************************)
(* C1: in every reachable state a derived key (_fernet) is held only if a  *)
(* master-password verifier exists; unlock(p) with no master password set   *)
(* must not leave the vault holding a key.                                  *)
(***************************************************************************)
C1_KeyOnlyWithVerifier ==
    _fernet # None => (has_master_password /\ settings[KEY_HASH] # None)

(***************************************************************************)
(* C2: once a master password exists, every secret of the persisted        *)
(* entries blob is ciphertext under the current derived key, after every    *)
(* operation in every lock state.                                           *)
(***************************************************************************)
C2_PersistedSecretsAreCiphertext ==
    settings[KEY_HASH] # None =>
        \A e \in PersistedEntries :
            /\ e.password.tag = "tok"
            /\ e.password.k = MasterKey

(***************************************************************************)
(* C3: changing the master password without the right old password (the    *)
(* vault is Locked: nobody has proved to know it) returns false and leaves  *)
(* the persisted salt, verifier and entries, the in-memory entries and the  *)
(* lock state as they were.                                                 *)
(***************************************************************************)
C3_WrongOldPasswordChangesNothing ==
    [][(StepOf("set_master_password") /\ is_locked /\ last'.pw # setPw) =>
           /\ last'.ret = "False"
           /\ UNCHANGED <<settings, passwords, _fernet, _master_password_hash>>]_vars

(***************************************************************************)
(* C4: with the entries saved under master password old, a change of the   *)
(* master password to new (new # old) leaves a store from which, after a    *)
(* restart and unlock(new), every entry reads back as its original secret,  *)
(* and old no longer verifies.                                              *)
(***************************************************************************)
\* every persisted entry is the user's secret, encrypted under old's key
SavedUnder(old) ==
    \A e \in PersistedEntries :
        /\ <<e.domain, e.username>> \in DOMAIN saved
        /\ e.password =
               _encrypt(Fernet(_derive_key(_salt, old)), saved[<<e.domain, e.username>>])

\* what unlock(password) loads after a restart on store s
LoadedWith(s, password) ==
    _load(s, Fernet(_derive_key(b64decode(s[KEY_SALT]), password)))

C4_ChangeKeepsSecrets ==
    [][(/\ StepOf("set_master_password")
        /\ has_master_password
        /\ last'.pw # setPw
        /\ SavedUnder(setPw)) =>
           /\ \A e \in AllEntries(LoadedWith(settings', last'.pw)) :
                  e.password = saved[<<e.domain, e.username>>]
           /\ _hash_password(_salt', setPw) # _master_password_hash']_vars

(***************************************************************************)
(* C5: no persisted state, the one left by the process stopping between    *)
(* two writes included, has the verifier of one master password and an     *)
(* entry ciphertext under the key of another.                               *)
(***************************************************************************)
C5_VerifierAndCiphertextsAgree ==
    settings[KEY_HASH] # None =>
        \A e \in PersistedEntries :
            e.password.tag = "tok" =>
                e.password.k = _derive_key(b64decode(settings[KEY_SALT]),
                                           settings[KEY_HASH].pw)

(***************************************************************************)
(* C6: if an entry fails to decrypt during a master-password change, the   *)
(* change returns false and the persisted verifier, the persisted entries   *)
(* and the in-memory entries stay as they were.                             *)
(***************************************************************************)
C6_UndecryptableEntryAbortsChange ==
    [][(/\ StepOf("set_master_password")
        /\ has_master_password
        /\ last'.pw # setPw
        /\ \E e \in PersistedEntries : ~FernetDecrypts(Fernet(MasterKey), e.password)) =>
           /\ last'.ret = "False"
           /\ UNCHANGED <<settings, passwords>>]_vars

(***************************************************************************)
(* C7: from NoMasterPassword with plaintext entries, set_master_password(p) *)
(* leaves the vault Unlocked with has_master_password() true, the verifier  *)
(* of p persisted, every entry persisted as ciphertext under the key        *)
(* derived from p, and every in-memory secret still the original plaintext. *)
(***************************************************************************)
AllPlain(pws) ==
    \A e \in AllEntries(pws) : e.password.tag = "plain"

\* the entries pws as a blob holds them when each secret is a token under key
CiphertextOf(pws, key) ==
    [d \in DOMAIN pws |->
        [i \in 1..Len(pws[d]) |->
            [pws[d][i] EXCEPT !.password =
                [tag |-> "tok", k |-> key, p |-> pws[d][i].password]]]]

C7_FirstMasterPasswordEncryptsAll ==
    [][(/\ StepOf("set_master_password")
        /\ ~has_master_password
        /\ AllPlain(passwords)) =>
           /\ ~is_locked'
           /\ has_master_password'
           /\ _fernet' # None
           /\ settings'[KEY_HASH] = _master_password_hash'
           /\ settings'[KEY_HASH] =
                  [tag |-> "sha256", pw |-> last'.pw, salt |-> settings[KEY_SALT]]
           /\ settings'[KEY_ENTRIES] # None
           /\ json_loads(settings'[KEY_ENTRIES]) =
                  CiphertextOf(passwords,
                               [tag |-> "key", pw |-> last'.pw, salt |-> _salt])
           /\ passwords' = passwords
           /\ \A e \in AllEntries(passwords') :
                  e.password = saved[<<e.domain, e.username>>]]_vars

C7_Witness ==
    /\ last.op = "set_master_password"
    /\ ~last.had
    /\ Cardinality(AllEntries(passwords)) = 2
    /\ AllPlain(passwords)
    /\ ~is_locked

(***************************************************************************)
(* C8: set_master_password invoked while a master password exists does     *)
(* not replace the verifier and does not alter any stored entry.            *)
(***************************************************************************)
C8_SetMasterPasswordOnlyWithoutMaster ==
    [][(StepOf("set_master_password") /\ has_master_password) =>
           /\ settings'[KEY_HASH] = settings[KEY_HASH]
           /\ settings'[KEY_ENTRIES] = settings[KEY_ENTRIES]
           /\ passwords' = passwords]_vars

(***************************************************************************)
(* C9: after set_master_password(A), verify_master_password(A) is true and *)
(* verify_master_password(B) is false for every B # A, in the same process  *)
(* and after any number of restarts.                                        *)
(***************************************************************************)
C9_VerifyAcceptsExactlyTheMasterPassword ==
    setPw # NoPw =>
        /\ \A B \in MasterPasswords : verify_master_password(B) = (B = setPw)
        /\ (last.op = "verify_master_password" /\ last.had) =>
               (last.ret = "True") = (last.pw = setPw)

C9_Witness ==
    /\ last.op = "verify_master_password"
    /\ last.locked
    /\ last.pw # setPw
    /\ last.ret = "False"

(***************************************************************************)
(* C10, as the spec states it: on a Locked vault verify_master_password(p) *)
(* with the correct p returns true and leaves the vault Unlocked; with a    *)
(* wrong p it returns false and leaves the vault Locked, nothing changed.   *)
(***************************************************************************)
VaultState == <<settings, passwords, _fernet, _master_password_hash, _salt>>

C11_LockedLookupFails ==
    (/\ last.op = "get_password"
     /\ last.locked
     /\ Truthy(last.username)
     /\ HasEntry(passwords, extract_domain(last.url), last.username)
     /\ LET d == extract_domain(last.url)
        IN  passwords[d][FirstIndex(passwords, d, last.username)].password.tag = "tok")
    => (last.ret = "Locked" /\ last.val = None)

(***************************************************************************)
(* C12: decryption is fail-closed: a token decrypted with a key other than *)
(* the one that produced it is never stored as the entry's plaintext       *)
(* secret.                                                                  *)
(***************************************************************************)
\* the blob's entries as stored, by domain and position
Stored(s) == _load(s, None)

C12_DecryptFailClosed ==
    [][(StepOf("unlock") /\ last'.ret = "True") =>
           \A d \in DOMAIN passwords' :
               \A i \in 1..Len(passwords'[d]) :
                   LET stored == Stored(settings)[d][i].password
                   IN  (stored.tag = "tok" /\ stored.k # _fernet'.key) =>
                           passwords'[d][i].password # stored]_vars

(***************************************************************************)
(* C13: the derived encryption key is never written to the persistence     *)
(* store: no value stored under passwords/salt, passwords/master_hash or   *)
(* passwords/entries is, or holds as its content, a derived key, and the    *)
(* persisted verifier is not the derived key.                               *)
(***************************************************************************)
\* the string is a key, or a token of a string that is
RECURSIVE HoldsKey(_)
HoldsKey(data) ==
    \/ data.tag = "key"
    \/ data.tag = "tok" /\ HoldsKey(data.p)

C13_KeyNeverPersisted ==
    /\ settings[KEY_SALT].tag # "key"
    /\ settings[KEY_HASH].tag # "key"
    /\ \A p \in MasterPasswords : settings[KEY_HASH] # _derive_key(_salt, p)
    /\ _fernet # None => settings[KEY_HASH] # _fernet.key
    /\ \A e \in PersistedEntries : ~HoldsKey(e.password)

C13_Witness ==
    /\ _fernet # None
    /\ settings[KEY_HASH] # None
    /\ \E e \in PersistedEntries : e.password.tag = "tok" /\ e.password.k = _fernet.key

(***************************************************************************)
(* C14: round trip at vault level: with no master password, or Unlocked,   *)
(* save_password(url, u, p) followed by get_password(url, u) yields p.      *)
(***************************************************************************)
C14_SaveThenGetYieldsSecret ==
    [][(/\ last.op = "save_password"
        /\ StepOf("get_password")
        /\ last'.url = last.url
        /\ last'.username = last.username
        /\ ~is_locked) =>
           /\ last'.val # None
           /\ last'.val.username = last.username
           /\ last'.val.password =
                  saved[<<extract_domain(last.url), last.username>>]]_vars

(***************************************************************************)
(* C15: after any sequence of save_password, update_password,              *)
(* remove_password, import_passwords, unlock and restart, no two entries   *)
(* of the store share the same (domain, username) pair; a save under an     *)
(* existing pair replaces the secret in place and leaves one entry.         *)
(***************************************************************************)
C15_PairsUnique ==
    /\ \A d1 \in DOMAIN passwords, d2 \in DOMAIN passwords :
         \A i \in 1..Len(passwords[d1]), j \in 1..Len(passwords[d2]) :
            (/\ passwords[d1][i].domain = passwords[d2][j].domain
             /\ passwords[d1][i].username = passwords[d2][j].username)
            => (d1 = d2 /\ i = j)
    /\ last.op = "save_password" =>
          LET d == extract_domain(last.url)
          IN  /\ Cardinality({ i \in 1..Len(passwords[d]) :
                                  passwords[d][i].username = last.username }) = 1
              /\ last.val.password = saved[<<d, last.username>>]

(***************************************************************************)
(* C16: every mutating operation persists before it returns: on return    *)
(* (of a call that found what it was to change) the persisted entries blob *)
(* holds exactly the in-memory entries, each secret in at-rest form        *)
(* (ciphertext if a master password is set, plaintext otherwise).          *)
(***************************************************************************)
Mutators ==
    {"save_password", "update_password", "remove_password", "record_usage",
     "clear_all", "import_passwords", "set_master_password"}

\* stored is the at-rest form of the secret held in memory
AtRest(stored, held, master) ==
    IF master
    THEN /\ stored.tag = "tok"
         /\ (stored.p = held \/ stored = held)
    ELSE stored = held

C16_MutationsPersistAtRest ==
    [][(last'.op \in Mutators /\ last'.ret # "False") =>
           LET blob == Stored(settings')
           IN  /\ DOMAIN blob = DOMAIN passwords'
               /\ \A d \in DOMAIN passwords' :
                     /\ Len(blob[d]) = Len(passwords'[d])
                     /\ \A i \in 1..Len(passwords'[d]) :
                           /\ [blob[d][i] EXCEPT !.password = None]
                                 = [passwords'[d][i] EXCEPT !.password = None]
                           /\ AtRest(blob[d][i].password,
                                     passwords'[d][i].password,
                                     settings'[KEY_HASH] # None)]_vars

(***************************************************************************)
(* C17: a secret saved before or after the master password was set         *)
(* survives a restart: after a restart and a successful unlock with the    *)
(* master password, every (domain, username) the user stored a secret      *)
(* under has an entry whose password is that secret.                       *)
(***************************************************************************)
C17_SecretsSurviveRestart ==
    [][(/\ last.op = "__init__"
        /\ has_master_password
        /\ StepOf("unlock")
        /\ last'.ret = "True"
        /\ last'.pw = setPw) =>
           \A k \in DOMAIN saved :
               /\ HasEntry(passwords', k[1], k[2])
               /\ passwords'[k[1]][FirstIndex(passwords', k[1], k[2])].password
                     = saved[k]]_vars

(***************************************************************************)
(* C18: loading never crashes: for every content of the persisted entries  *)
(* blob (missing, not a string, invalid JSON, JSON of the wrong shape)      *)
(* construction completes, and on such a blob the vault starts with an      *)
(* empty store.                                                             *)
(***************************************************************************)
C18_LoadNeverCrashes ==
    [][StepOf("__init__") =>
           /\ last'.ret = "None"
           /\ (settings[KEY_ENTRIES] \in ForeignBlobs \cup {None})
                 => passwords' = EmptyDict]_vars

(***************************************************************************)
(* C19: has_master_password() is true if and only if a verifier is         *)
(* persisted in the settings store, in every reachable state, also after   *)
(* another component has cleared the shared store while the vault is alive. *)
(***************************************************************************)
C19_HasMasterIffVerifierPersisted ==
    has_master_password <=> settings[KEY_HASH] # None

(***************************************************************************)
(* C20 as stated: get_password with the username omitted returns all       *)
(* entries stored for the domain, not just one.                             *)
(***************************************************************************)
\* the entries a finished lookup handed back
ReturnedEntries(call) ==
    CASE call.ret = "None" -> {}
      [] call.ret = "entry" -> {call.val}
      [] call.ret = "list" -> { call.val.items[i] : i \in 1..Len(call.val.items) }

EntriesOf(pws, domain) ==
    IF domain \in DOMAIN pws
    THEN { pws[domain][i] : i \in 1..Len(pws[domain]) }
    ELSE {}

C20_OmittedUsernameGivesAll ==
    [][(StepOf("get_password") /\ last'.username = NoUsername) =>
           ReturnedEntries(last') = EntriesOf(passwords, extract_domain(last'.url))]_vars

(***************************************************************************)
(* C20, amended: get_password with the username omitted returns the first  *)
(* entry stored for the domain only (None when there is none);              *)
(* get_passwords_for_url returns all of them, in stored order.  Each entry  *)
(* returned is the entry held in memory, secret included, which is what     *)
(* the lookup with that entry's username returns.                           *)
(***************************************************************************)
C20_OmittedUsernameGivesFirst ==
    [][LET d == extract_domain(last'.url)
           held == IF d \in DOMAIN passwords THEN passwords[d] ELSE << >>
       IN  /\ (StepOf("get_password") /\ last'.username = NoUsername) =>
                 /\ held = << >> => last'.ret = "None"
                 /\ held # << >> => (last'.ret = "entry" /\ last'.val = held[1])
           /\ StepOf("get_passwords_for_url") =>
                 /\ last'.val.items = held
                 /\ \A i \in 1..Len(held) :
                       Truthy(held[i].username) =>
                           get_password(passwords, last'.url, held[i].username)
                               = held[i]]_vars

C20_Witness ==
    /\ last.op = "get_password"
    /\ last.username = NoUsername
    /\ last.ret = "entry"
    /\ Len(passwords[extract_domain(last.url)]) >= 2
    /\ last.val.password # passwords[extract_domain(last.url)][2].password

(***************************************************************************)
(* C21: passwords_changed is emitted after every mutation of the vault,    *)
(* and only after the mutation has been persisted; save_password emits     *)
(* password_saved and remove_password emits password_removed, each before  *)
(* the passwords_changed of the same call.                                 *)
(***************************************************************************)
\* position of the first occurrence of event e in the call's events, 0 if none
At(events, e) ==
    IF \E i \in 1..Len(events) : events[i] = e
    THEN CHOOSE i \in 1..Len(events) :
             events[i] = e /\ \A j \in 1..(i - 1) : events[j] # e
    ELSE 0

\* the step changed the entries held or the entries persisted
MutatesEntries ==
    passwords' # passwords \/ Stored(settings') # Stored(settings)

C21_ChangedAfterEveryMutation ==
    [][LET ev == last'.events
       IN  /\ (last'.op \in Mutators /\ MutatesEntries) =>
                 /\ At(ev, "passwords_changed") > 0
                 /\ At(ev, "_save") > 0
                 /\ At(ev, "_save") < At(ev, "passwords_changed")
           /\ StepOf("save_password") =>
                 /\ At(ev, "password_saved") > 0
                 /\ At(ev, "password_saved") < At(ev, "passwords_changed")
           /\ (StepOf("remove_password") /\ MutatesEntries) =>
                 /\ At(ev, "password_removed") > 0
                 /\ At(ev, "password_removed") < At(ev, "passwords_changed")]_vars

(***************************************************************************)
(* C22: mutating operations on several threads behave as if serialized:    *)
(* after set_master_password on an Unlocked vault and a save_password that *)
(* ran at the same time have both completed, every persisted entry is      *)
(* encrypted under the new key, none under the old key or in mixed form.   *)
(***************************************************************************)
C22_ConcurrentRekeyLeavesNewKeyOnly ==
    (/\ threads["M"].pc = "done" /\ threads["S"].pc = "done"
     /\ threads["M"].overlap /\ threads["S"].overlap
     /\ threads["M"].unlocked) =>
        \A e \in PersistedEntries :
            /\ e.password.tag = "tok"
            /\ e.password.k = _derive_key(_salt, threads["M"].password)
            /\ e.password.p.tag = "plain"

(***************************************************************************)
(* C23: generate_password(length) for every length >= 4, with special      *)
(* characters enabled, returns a password of exactly that length that has  *)
(* at least one uppercase letter, one lowercase letter, one digit and one  *)
(* punctuation character, for every outcome of the random source.          *)
(***************************************************************************)
C23_GeneratedHasEveryClass ==
    (/\ last.op = "generate_password"
     /\ last.args.include_special
     /\ last.args.length >= 4) =>
        /\ Len(last.val.chars) = last.args.length
        /\ \A c \in {"a", "A", "0", "!"} :
              \E i \in 1..Len(last.val.chars) : last.val.chars[i] = c

(***************************************************************************)
(* C24: search(query) returns exactly the entries whose domain or username *)
(* contains query as a case-insensitive substring (all entries for the     *)
(* empty query); it changes neither the entries in memory, the persisted   *)
(* data nor the lock state, and decrypts no secret: each entry returned is *)
(* the entry as held in memory.                                            *)
(***************************************************************************)
\* the same letter, in either case
SameLetter(a, b) ==
    \/ a = b
    \/ {a, b} \in {{"u", "U"}, {"c", "C"}, {"o", "O"}, {"m", "M"}}

\* part occurs in whole, letters compared without regard to case
OccursIn(part, whole) ==
    \E k \in 0..(Len(whole) - Len(part)) :
        \A i \in 1..Len(part) : SameLetter(part[i], whole[k + i])

C26_RemoveOnlyWhatExists ==
    [][StepOf("remove_password") =>
           LET d == last'.domain
               u == last'.username
               existed == HasEntry(passwords, d, u)
               Others(pws) == { e \in AllEntries(pws) :
                                  ~(e.domain = d /\ e.username = u) }
           IN  /\ (last'.ret = "True" \/ At(last'.events, "password_removed") > 0)
                     => (existed /\ ~HasEntry(passwords', d, u))
               /\ ~existed =>
                     /\ last'.ret = "False"
                     /\ last'.events = << >>
                     /\ passwords' = passwords
               /\ Others(passwords') = Others(passwords)]_vars

(***************************************************************************)
(* C27: entries of different sites never interfere: for two save_password  *)
(* inputs that denote different domains (also inputs without a scheme),    *)
(* save_password(url1, u, p1) followed by save_password(url2, u, p2)       *)
(* leaves two entries, and get_password(url1, u) still yields p1.          *)
(***************************************************************************)
C27_SitesDoNotInterfere ==
    [][(/\ last.op = "save_password"
        /\ StepOf("save_password")
        /\ last'.username = last.username
        /\ last'.url.host # last.url.host) =>
           LET first == get_password(passwords', last.url, last.username)
               second == get_password(passwords', last'.url, last'.username)
           IN  /\ first # None /\ second # None
               /\ first.password = last.val.password
               /\ second.password = last'.val.password
               /\ Cardinality(AllEntries(passwords')) >= 2]_vars

(***************************************************************************)
(* C28: in every reachable state each entry stored in the list             *)
(* passwords[d] has entry.domain = d, also after import_passwords from any *)
(* JSON file and after _load from any persisted blob.                      *)
(***************************************************************************)
C28_EntryDomainIsItsKey ==
    \A d \in DOMAIN passwords :
        \A i \in 1..Len(passwords[d]) : passwords[d][i].domain = d

(***************************************************************************)
(* C29: the settings manager leaves the vault's persisted data intact:     *)
(* reset_to_defaults() and import_settings leave passwords/salt,           *)
(* passwords/master_hash and passwords/entries unchanged.                  *)
(***************************************************************************)
C29_SettingsManagerKeepsVaultKeys ==
    [][(last'.op \in {"reset_to_defaults", "import_settings"}) =>
           \A k \in SettingsKeys : settings'[k] = settings[k]]_vars

(***************************************************************************)
(* C30: when a master password is set, export_passwords writes the secrets *)
(* to the file only after the supplied master password has been verified:  *)
(* a call with a wrong password or with no password returns false and      *)
(* writes nothing, and no export succeeds while the vault is Locked.       *)
(***************************************************************************)
C30_ExportOnlyAfterVerification ==
    (last.op = "export_passwords" /\ last.had) =>
        /\ (\/ last.pw = ""
            \/ _hash_password(_salt, last.pw) # _master_password_hash)
              => (last.ret = "False" /\ last.val = None)
        /\ last.ret = "True" => ~last.locked

====
